---------------------------- MODULE Spec2Model ----------------------------
(***************************************************************************)
(* A model of cognitiveshell's intent parser (command/nlp_parser.py) and   *)
(* of its usage persistence store (database/database.py).                  *)
(*                                                                         *)
(* Text is modelled character by character: a Python str is a sequence of  *)
(* one-character strings, so that lower(), strip(), re.match and the       *)
(* substring tests are computed as the code computes them.                 *)
(***************************************************************************)
EXTENDS Integers, Sequences, FiniteSets, TLC

VARIABLES
    command_text,   \* parser: the raw argument of parse_command
    parsed,         \* parser: the value parse_command returned (NoResult before the call)
    commands_log,   \* store: committed rows of commands_log, in rowid order
    frequent_queries, \* store: committed rows of frequent_queries, in rowid order
    app_usage,      \* store: committed rows of app_usage, in rowid order
    sqlite_master,  \* store: the names of the tables of the database file
    connections,    \* store: connections the operations opened and have not closed
    lock,           \* store: the caller holding SQLite's write lock, 0 when free
    now,            \* the clock read by datetime.datetime.now
    calls,          \* number of store calls started so far
    pc,             \* per caller: position inside the store operation
    op,             \* per caller: the operation called and its arguments
    timestamp,      \* per caller: the local variable timestamp, while in a call
    pending,        \* per caller: the uncommitted write of its transaction
    ret,            \* the call that ended in the last step and its result
    completed       \* history: per table and key, the updates that committed,
                    \* and the log_command calls that committed, in order

vars == <<command_text, parsed, commands_log, frequent_queries, app_usage,
          sqlite_master, connections, lock, now, calls, pc, op, timestamp, pending, ret, completed>>

parserVars == <<command_text, parsed>>
storeVars == <<commands_log, frequent_queries, app_usage, sqlite_master,
               connections, lock, now,
               calls, pc, op, timestamp, pending, ret, completed>>

-----------------------------------------------------------------------------
(* Characters and the str methods used by the parser                       *)

LowerCase == <<"a","b","c","d","e","f","g","h","i","j","k","l","m",
               "n","o","p","q","r","s","t","u","v","w","x","y","z">>
UpperCase == <<"A","B","C","D","E","F","G","H","I","J","K","L","M",
               "N","O","P","Q","R","S","T","U","V","W","X","Y","Z">>

\* [a-zA-Z]
Letter == {LowerCase[i] : i \in 1..26} \cup {UpperCase[i] : i \in 1..26}

\* what str.strip() removes and what \s matches (the ASCII part of it)
Whitespace == {" ", "\t", "\n"}

\* str.lower() on one character
lowerChar(c) ==
    IF \E i \in 1..26 : UpperCase[i] = c
    THEN LowerCase[CHOOSE i \in 1..26 : UpperCase[i] = c]
    ELSE c

\* str.lower()
lower(s) == [i \in 1..Len(s) |-> lowerChar(s[i])]

\* str.strip(): drops the leading and the trailing run of whitespace
strip(s) ==
    LET keep == {i \in 1..Len(s) : s[i] \notin Whitespace}
    IN  IF keep = {} THEN <<>>
        ELSE LET first == CHOOSE i \in keep : \A j \in keep : i <= j
                 last  == CHOOSE i \in keep : \A j \in keep : j <= i
             IN  SubSeq(s, first, last)

\* lit occurs in s at position i
LitAt(s, i, lit) ==
    /\ i >= 1
    /\ i + Len(lit) - 1 <= Len(s)
    /\ \A j \in 1..Len(lit) : s[i + j - 1] = lit[j]

\* Python's `lit in s`
Contains(s, lit) == \E i \in 1..(Len(s) + 1) : LitAt(s, i, lit)

Max(S) == CHOOSE x \in S : \A y \in S : y <= x

\* length of the longest run of characters of class C starting at position i
RECURSIVE Run(_, _, _)
Run(s, i, C) ==
    IF i >= 1 /\ i <= Len(s) /\ s[i] \in C THEN 1 + Run(s, i + 1, C) ELSE 0

\* the longest match of \s* at i, and of .* at i (. matches all but newline)
WsRun(s, i) == Run(s, i, Whitespace)
DotRun(s, i) == IF i >= 1 /\ i <= Len(s)
                THEN Run(s, i, {s[j] : j \in 1..Len(s)} \ {"\n"}) ELSE 0

-----------------------------------------------------------------------------
(* re.match: anchored at position 1, not at the end; quantifiers are       *)
(* greedy and backtrack, so of all the ways a pattern can match, the one   *)
(* returned takes the longest first quantifier, then the longest second,   *)
(* and so on: the lexicographically greatest tuple of repetition counts.   *)

NoMatch == [ok |-> FALSE, g1 |-> <<>>, g2 |-> <<>>]

LexLeq(u, t) ==
    \E i \in 1..(Len(t) + 1) :
        /\ \A j \in 1..(i - 1) : u[j] = t[j]
        /\ i <= Len(t) => u[i] < t[i]

LexMax(T) == CHOOSE t \in T : \A u \in T : LexLeq(u, t)

\* <verb>\s+(.+) : rest is the text the (.+) matched
VerbRest(s, verb) ==
    LET p  == Len(verb) + 1
        ks == {k \in 1..WsRun(s, p) : DotRun(s, p + k) >= 1}
    IN  IF LitAt(s, 1, verb) /\ ks # {}
        THEN LET a == p + Max(ks)
             IN  [ok |-> TRUE, rest |-> SubSeq(s, a, a + DotRun(s, a) - 1)]
        ELSE [ok |-> FALSE, rest |-> <<>>]

\* the repetition counts <<k, n, w2, w3>> with which
\* <verb>\s+(.+)\s+<lit>\s+ matches a prefix of s
Counts(s, verb, lit) ==
    LET p == Len(verb) + 1
    IN  IF ~LitAt(s, 1, verb) THEN {}
        ELSE UNION {UNION {UNION {
                {<<k, n, w2, w3>> :
                    w3 \in 1..WsRun(s, p + k + n + w2 + Len(lit))}
                : w2 \in {w \in 1..WsRun(s, p + k + n) :
                            LitAt(s, p + k + n + w, lit)}}
                : n \in 1..DotRun(s, p + k)}
                : k \in 1..WsRun(s, p)}

\* position following the prefix matched with counts t
After(verb, lit, t) == Len(verb) + 1 + t[1] + t[2] + t[3] + Len(lit) + t[4]

\* the (.+) in the middle, for counts t
Middle(s, verb, t) ==
    SubSeq(s, Len(verb) + 1 + t[1], Len(verb) + t[1] + t[2])

c_open   == <<"o","p","e","n">>
c_search == <<"s","e","a","r","c","h">>
c_on     == <<"o","n">>
c_go_to  == <<"g","o"," ","t","o">>
c_visit  == <<"v","i","s","i","t">>
c_open_url == <<"o","p","e","n"," ","u","r","l">>
c_close  == <<"c","l","o","s","e">>
c_bring  == <<"b","r","i","n","g">>
c_focus  == <<"f","o","c","u","s">>
c_to     == <<"t","o">>
c_front  == <<"f","r","o","n","t">>
c_help   == <<"h","e","l","p">>
c_exit   == <<"e","x","i","t">>
c_quit   == <<"q","u","i","t">>

\* r"open\s+(.+)"   g1 = the (.+)
re_open_app(s) ==
    LET m == VerbRest(s, c_open)
    IN  IF m.ok THEN [ok |-> TRUE, g1 |-> m.rest, g2 |-> <<>>] ELSE NoMatch

\* r"search\s+(.+)\s+on\s+(.+)"   g1 = first (.+), g2 = second (.+)
re_search_web(s) ==
    LET T == {t \in Counts(s, c_search, c_on) :
                DotRun(s, After(c_search, c_on, t)) >= 1}
    IN  IF T = {} THEN NoMatch
        ELSE LET t == LexMax(T)
                 e == After(c_search, c_on, t)
             IN  [ok |-> TRUE, g1 |-> Middle(s, c_search, t),
                  g2 |-> SubSeq(s, e, e + DotRun(s, e) - 1)]

\* r"search\s+(.+)"   g1 = the (.+)
re_search_default(s) ==
    LET m == VerbRest(s, c_search)
    IN  IF m.ok THEN [ok |-> TRUE, g1 |-> m.rest, g2 |-> <<>>] ELSE NoMatch

\* r"(go to|visit|open url)\s+(.+)"   g1 = the verb, g2 = the (.+);
\* the alternatives are tried in the order written
re_go_to_url(s) ==
    LET alts == <<c_go_to, c_visit, c_open_url>>
        hit  == {i \in 1..3 : VerbRest(s, alts[i]).ok}
    IN  IF hit = {} THEN NoMatch
        ELSE LET i == CHOOSE x \in hit : \A y \in hit : x <= y
             IN  [ok |-> TRUE, g1 |-> alts[i], g2 |-> VerbRest(s, alts[i]).rest]

\* r"close\s+(.+)"   g1 = the (.+)
re_close_app(s) ==
    LET m == VerbRest(s, c_close)
    IN  IF m.ok THEN [ok |-> TRUE, g1 |-> m.rest, g2 |-> <<>>] ELSE NoMatch

\* r"(bring|focus)\s+(.+)\s+to\s+front"   g1 = the verb, g2 = the (.+)
BringVerb(s, verb) ==
    LET T == {t \in Counts(s, verb, c_to) :
                LitAt(s, After(verb, c_to, t), c_front)}
    IN  IF T = {} THEN NoMatch
        ELSE [ok |-> TRUE, g1 |-> verb, g2 |-> Middle(s, verb, LexMax(T))]

re_bring_to_front(s) ==
    IF BringVerb(s, c_bring).ok THEN BringVerb(s, c_bring)
    ELSE BringVerb(s, c_focus)

-----------------------------------------------------------------------------
(* NLPParser                                                               *)

\* the table with search_default declared before search_web
patterns_search_default_first ==
    <<"open_app", "search_default", "search_web", "go_to_url",
      "close_app", "bring_to_front">>

\* self.patterns: the intents in the order the dict declares them, which is
\* the order `for intent, pattern in self.patterns.items()` visits them
patterns == <<"open_app", "search_web", "search_default", "go_to_url",
              "close_app", "bring_to_front">>

\* re.match(self.patterns[intent], s)
re_match(intent, s) ==
    CASE intent = "open_app"       -> re_open_app(s)
      [] intent = "search_web"     -> re_search_web(s)
      [] intent = "search_default" -> re_search_default(s)
      [] intent = "go_to_url"      -> re_go_to_url(s)
      [] intent = "close_app"      -> re_close_app(s)
      [] intent = "bring_to_front" -> re_bring_to_front(s)

\* self.app_aliases, as <<key, value>> pairs
app_aliases ==
    {
      <<<<"v","s","c","o","d","e">>,
        <<"C","o","d","e">>>>,
      <<<<"c","h","r","o","m","e">>,
        <<"G","o","o","g","l","e"," ","C","h","r","o","m","e">>>>,
      <<<<"f","i","r","e","f","o","x">>,
        <<"F","i","r","e","f","o","x">>>>,
      <<<<"t","e","r","m","i","n","a","l">>,
        <<"T","e","r","m","i","n","a","l">>>>,
      <<<<"n","o","t","e","p","a","d">>,
        <<"n","o","t","e","p","a","d",".","e","x","e">>>>,
      <<<<"c","a","l","c","u","l","a","t","o","r">>,
        <<"c","a","l","c",".","e","x","e">>>>,
      <<<<"s","a","f","a","r","i">>,
        <<"S","a","f","a","r","i">>>>,
      <<<<"p","a","g","e","s">>,
        <<"P","a","g","e","s">>>>,
      <<<<"e","x","c","e","l">>,
        <<"E","X","C","E","L",".","E","X","E">>>>,
      <<<<"w","o","r","d">>,
        <<"W","I","N","W","O","R","D",".","E","X","E">>>> }

\* a lookup that finds no alias
app_aliases_get_none(name) == name

\* self.app_aliases.get(name, name)
app_aliases_get(name) ==
    IF \E a \in app_aliases : a[1] = name
    THEN (CHOOSE a \in app_aliases : a[1] = name)[2]
    ELSE name

\* self.default_search_engine
default_search_engine == <<"g","o","o","g","l","e">>

c_scheme_sep == <<":","/","/">>
c_https == <<"h","t","t","p","s",":","/","/">>

\* re.match(r'^[a-zA-Z]+://', url)
has_scheme(url) ==
    \E n \in 1..Run(url, 1, Letter) : LitAt(url, n + 1, c_scheme_sep)

\* the completion prefixing https:// to every url
complete_url_always(url) == c_https \o url

\* if not re.match(r'^[a-zA-Z]+://', url): url = f"https://{url}"
complete_url(url) == IF has_scheme(url) THEN url ELSE c_https \o url

\* the entities with no site for search_default
entities_of_query_only(intent, m) ==
    CASE intent \in {"open_app", "close_app", "bring_to_front"} ->
            [app_name |-> app_aliases_get(strip(m.g1))]
      [] intent = "search_web" ->
            [query |-> strip(m.g1), site |-> strip(m.g2)]
      [] intent = "search_default" ->
            [query |-> strip(m.g1)]
      [] intent = "go_to_url" ->
            [url |-> complete_url(strip(m.g2))]

\* the entities taken from the groups as matched, without .strip()
entities_of_unstripped(intent, m) ==
    CASE intent \in {"open_app", "close_app", "bring_to_front"} ->
            [app_name |-> app_aliases_get(m.g1)]
      [] intent = "search_web" ->
            [query |-> m.g1, site |-> m.g2]
      [] intent = "search_default" ->
            [query |-> m.g1, site |-> default_search_engine]
      [] intent = "go_to_url" ->
            [url |-> complete_url(m.g2)]

\* the body of `if match:` in parse_command: the entities of a match m
entities_of(intent, m) ==
    CASE intent \in {"open_app", "close_app", "bring_to_front"} ->
            [app_name |-> app_aliases_get(strip(m.g1))]
      [] intent = "search_web" ->
            [query |-> strip(m.g1), site |-> strip(m.g2)]
      [] intent = "search_default" ->
            [query |-> strip(m.g1), site |-> default_search_engine]
      [] intent = "go_to_url" ->
            [url |-> complete_url(strip(m.g2))]

\* the empty dict {}
NoEntities == <<>>

\* parse_command returning the docstring's {'intent': 'unknown'}, with no
\* entities key, when nothing matches
parse_command_bare_unknown(text) ==
    LET s == strip(lower(text))
    IN  IF \E i \in 1..Len(patterns) : re_match(patterns[i], s).ok
        THEN LET i == CHOOSE x \in 1..Len(patterns) :
                        /\ re_match(patterns[x], s).ok
                        /\ \A y \in 1..(x - 1) : ~re_match(patterns[y], s).ok
             IN  [intent   |-> patterns[i],
                  entities |-> entities_of(patterns[i], re_match(patterns[i], s))]
        ELSE IF Contains(s, c_help)
        THEN [intent |-> "help", entities |-> NoEntities]
        ELSE IF Contains(s, c_exit) \/ Contains(s, c_quit)
        THEN [intent |-> "exit", entities |-> NoEntities]
        ELSE [intent |-> "unknown"]

\* parse_command looking for exit and quit before help
parse_command_exit_first(text) ==
    LET s    == strip(lower(text))
        hits == {i \in 1..Len(patterns) : re_match(patterns[i], s).ok}
    IN  IF hits # {}
        THEN LET i == CHOOSE x \in hits : \A y \in hits : x <= y
             IN  [intent   |-> patterns[i],
                  entities |-> entities_of(patterns[i], re_match(patterns[i], s))]
        ELSE IF Contains(s, c_exit) \/ Contains(s, c_quit)
        THEN [intent |-> "exit", entities |-> NoEntities]
        ELSE IF Contains(s, c_help)
        THEN [intent |-> "help", entities |-> NoEntities]
        ELSE [intent |-> "unknown", entities |-> NoEntities]

\* NLPParser.parse_command
parse_command(text) ==
    LET s    == strip(lower(text))
        hits == {i \in 1..Len(patterns) : re_match(patterns[i], s).ok}
    IN  IF hits # {}
        THEN LET i == CHOOSE x \in hits : \A y \in hits : x <= y
             IN  [intent   |-> patterns[i],
                  entities |-> entities_of(patterns[i], re_match(patterns[i], s))]
        ELSE IF Contains(s, c_help)
        THEN [intent |-> "help", entities |-> NoEntities]
        ELSE IF Contains(s, c_exit) \/ Contains(s, c_quit)
        THEN [intent |-> "exit", entities |-> NoEntities]
        ELSE [intent |-> "unknown", entities |-> NoEntities]

-----------------------------------------------------------------------------
(* The command strings the parser is applied to: a first word, up to       *)
(* MaxTail further words, laid out with one of the Layouts.                *)

MaxTail == 3

Heads == {c_open, <<"O","p","e","n">>, c_search, <<"g","o">>, c_visit,
          c_close, c_bring, c_focus, c_help, c_exit, c_quit, <<"x">>}

Tails == {c_on, c_to, c_front, <<"u","r","l">>, c_help,
          <<"V","S","C","o","d","e">>, <<"f","t","p",":","/","/","x">>}

Layouts == {[lead |-> <<>>,    gap |-> <<" ">>,       trail |-> <<>>],
            [lead |-> <<" ">>, gap |-> <<" ", "\t">>, trail |-> <<"\n">>],
            [lead |-> <<>>,    gap |-> <<"\n">>,      trail |-> <<>>]}

RECURSIVE SeqsUpTo(_, _)
SeqsUpTo(S, n) ==
    IF n = 0 THEN {<<>>}
    ELSE LET shorter == SeqsUpTo(S, n - 1)
         IN  shorter \cup {Append(w, x) : w \in shorter, x \in S}

RECURSIVE Join(_, _)
Join(ws, gap) ==
    IF ws = <<>> THEN <<>> ELSE gap \o Head(ws) \o Join(Tail(ws), gap)

Inputs ==
    {<<>>} \cup
    {l.lead \o h \o Join(ws, l.gap) \o l.trail :
        h \in Heads, ws \in SeqsUpTo(Tails, MaxTail), l \in Layouts}

NoResult == [intent |-> "none", entities |-> NoEntities]

-----------------------------------------------------------------------------
(* DatabaseManager: values                                                 *)

\* datetime.datetime.now(datetime.timezone.utc).isoformat() at clock reading
\* n, the clock counting half seconds: the text is
\* ...:SS+00:00 when the microseconds are 0 and ...:SS.500000+00:00
\* otherwise, modelled by the seconds field and the character after it
isoformat(n) == [sec |-> n \div 2, frac |-> IF n % 2 = 0 THEN "+" ELSE "."]

\* SQLite's comparison of two such TEXT values (BINARY collation: bytewise)
CharCode(c) == IF c = "+" THEN 43 ELSE 46
text_less(a, b) ==
    \/ a.sec < b.sec
    \/ a.sec = b.sec /\ CharCode(a.frac) < CharCode(b.frac)

\* tokens of a JSON text
Tok(t, v) == [t |-> t, v |-> v]
JStr(v) == Tok("str", v)

\* the keys of a dict in the order json.dumps writes them
RECURSIVE KeySeq(_)
KeySeq(K) ==
    IF K = {} THEN <<>>
    ELSE LET k == CHOOSE x \in K : TRUE IN <<k>> \o KeySeq(K \ {k})

RECURSIVE DumpItems(_, _)
DumpItems(e, ks) ==
    IF ks = <<>> THEN <<>>
    ELSE <<JStr(Head(ks)), Tok(":", ""), e[Head(ks)]>>
         \o (IF Len(ks) > 1 THEN <<Tok(",", "")>> ELSE <<>>)
         \o DumpItems(e, Tail(ks))

\* json.dumps raises TypeError on a value that is no JSON type
serializable(e) == \A k \in DOMAIN e : e[k].t = "str"

\* a serialization writing the empty dict as the empty text
json_dumps_empty_as_blank(e) ==
    IF DOMAIN e = {} THEN <<>>
    ELSE <<Tok("{", "")>> \o DumpItems(e, KeySeq(DOMAIN e)) \o <<Tok("}", "")>>

\* json.dumps(entities), for a serializable dict
json_dumps(e) ==
    <<Tok("{", "")>> \o DumpItems(e, KeySeq(DOMAIN e)) \o <<Tok("}", "")>>

\* json.loads(text): [ok, value]; ok = FALSE stands for json.JSONDecodeError
json_loads(text) ==
    LET n == Len(text) - 2
        inner == SubSeq(text, 2, Len(text) - 1)
        wellformed ==
            /\ Len(text) >= 2
            /\ text[1].t = "{"
            /\ text[Len(text)].t = "}"
            /\ n = 0 \/ n % 4 = 3
            /\ \A i \in 1..n :
                  inner[i].t = CASE i % 4 = 1 -> "str"
                                 [] i % 4 = 2 -> ":"
                                 [] i % 4 = 3 -> "str"
                                 [] OTHER     -> ","
        keys == {inner[i].v : i \in {j \in 1..n : j % 4 = 1}}
    IN  IF wellformed
        THEN [ok |-> TRUE,
              value |-> [k \in keys |->
                  inner[(CHOOSE i \in 1..n :
                           /\ i % 4 = 1 /\ inner[i].v = k
                           /\ \A j \in (i + 1)..n :
                                 ~(j % 4 = 1 /\ inner[j].v = k)) + 2]]]
        ELSE [ok |-> FALSE, value |-> <<>>]

\* a value of the nullable column commands_log.entities
Null == [null |-> TRUE, text |-> <<>>]
Text(x) == [null |-> FALSE, text |-> x]

\* Python truthiness of such a value: None and '' are false
truthy(col) == ~col.null /\ col.text # <<>>

-----------------------------------------------------------------------------
(* DatabaseManager: the SQL statements                                     *)

\* CREATE TABLE name (...): an error when the table exists
create_table(master, name) ==
    [ok |-> \A i \in 1..Len(master) : master[i] # name,
     master |-> IF \E i \in 1..Len(master) : master[i] = name
                THEN master ELSE Append(master, name)]

\* CREATE TABLE IF NOT EXISTS name (...): the schema after the statement;
\* ok = FALSE stands for sqlite3.OperationalError
create_table_if_not_exists(master, name) ==
    [ok |-> TRUE,
     master |-> IF \E i \in 1..Len(master) : master[i] = name
                THEN master ELSE Append(master, name)]

\* the three CREATE statements of _initialize_db, in their order; a failed
\* statement ends the sequence
create_tables(master) ==
    LET m1 == create_table_if_not_exists(master, "commands_log")
        m2 == create_table_if_not_exists(m1.master, "frequent_queries")
        m3 == create_table_if_not_exists(m2.master, "app_usage")
    IN  IF ~m1.ok THEN m1 ELSE IF ~m2.ok THEN m2 ELSE m3

\* the statement without its ON CONFLICT clause, on a table without the
\* UNIQUE constraint: every call inserts
insert_frequent_query(rel, query_text, ts) ==
    Append(rel, [query_text |-> query_text, count |-> 1, last_used |-> ts])

\* the update of the statement applied to every row of the table
upsert_frequent_query_every_row(rel, query_text, ts) ==
    IF \E i \in 1..Len(rel) : rel[i].query_text = query_text
    THEN [i \in 1..Len(rel) |->
            [rel[i] EXCEPT !.count = @ + 1, !.last_used = ts]]
    ELSE Append(rel, [query_text |-> query_text, count |-> 1, last_used |-> ts])

\* INSERT INTO frequent_queries (query_text, count, last_used)
\* VALUES (?, 1, ?) ON CONFLICT(query_text) DO UPDATE SET
\* count = count + 1, last_used = ?
upsert_frequent_query(rel, query_text, ts) ==
    IF \E i \in 1..Len(rel) : rel[i].query_text = query_text
    THEN [i \in 1..Len(rel) |->
            IF rel[i].query_text = query_text
            THEN [rel[i] EXCEPT !.count = @ + 1, !.last_used = ts]
            ELSE rel[i]]
    ELSE Append(rel, [query_text |-> query_text, count |-> 1, last_used |-> ts])

\* INSERT INTO app_usage (app_name, open_count, last_opened)
\* VALUES (?, 1, ?) ON CONFLICT(app_name) DO UPDATE SET
\* open_count = open_count + 1, last_opened = ?
upsert_app_usage(rel, app_name, ts) ==
    IF \E i \in 1..Len(rel) : rel[i].app_name = app_name
    THEN [i \in 1..Len(rel) |->
            IF rel[i].app_name = app_name
            THEN [rel[i] EXCEPT !.open_count = @ + 1, !.last_opened = ts]
            ELSE rel[i]]
    ELSE Append(rel, [app_name |-> app_name, open_count |-> 1, last_opened |-> ts])

\* INSERT INTO commands_log (command_text, intent, entities, timestamp, status)
insert_command(rel, text, intent, entities_json, ts, status) ==
    Append(rel, [command_text |-> text, intent |-> intent,
                 entities |-> Text(entities_json), timestamp |-> ts,
                 status |-> status])

\* ORDER BY count DESC alone
before_query_count_only(a, b) == a.count > b.count

\* ORDER BY count DESC, last_used DESC: a comes strictly before b
before_query(a, b) ==
    \/ a.count > b.count
    \/ a.count = b.count /\ text_less(b.last_used, a.last_used)

\* ORDER BY open_count DESC, last_opened DESC
before_app(a, b) ==
    \/ a.open_count > b.open_count
    \/ a.open_count = b.open_count /\ text_less(b.last_opened, a.last_opened)

\* ORDER BY timestamp ASC
before_command_ascending(a, b) == text_less(a.timestamp, b.timestamp)

\* ORDER BY timestamp DESC
before_command(a, b) == text_less(b.timestamp, a.timestamp)

\* the ORDER BY clause of the SELECT on a table
before(table, a, b) ==
    CASE table = "frequent_queries" -> before_query(a, b)
      [] table = "app_usage"        -> before_app(a, b)
      [] table = "commands_log"     -> before_command(a, b)

\* the orders in which SELECT ... ORDER BY may deliver the rows rel of a
\* table: rows the ORDER BY terms do not separate come in any order
order_by(table, rel) ==
    LET n == Len(rel)
        perms == {f \in [1..n -> 1..n] : \A i, j \in 1..n : i # j => f[i] # f[j]}
    IN  {[i \in 1..n |-> rel[f[i]]] : f \in
            {g \in perms :
                \A i, j \in 1..n : i < j => ~before(table, rel[g[j]], rel[g[i]])}}

\* LIMIT ?: SQLite takes a negative limit as no limit
limit_rows(rows, limit) ==
    IF limit < 0 \/ limit >= Len(rows) THEN rows ELSE SubSeq(rows, 1, limit)

\* cursor.fetchall() of SELECT <all columns but id> FROM table
\* ORDER BY ... LIMIT ?: the lists it may deliver; dict(row) is the row as
\* it is stored here
select_rows(table, rel, limit) ==
    {limit_rows(rows, limit) : rows \in order_by(table, rel)}

\* the loop of get_recent_commands over the fetched rows: entities is
\* replaced by json.loads of it when it is truthy
decode_row(row) ==
    IF truthy(row.entities)
    THEN [row EXCEPT !.entities = [dict |-> TRUE,
                                   value |-> json_loads(row.entities.text).value]]
    ELSE [row EXCEPT !.entities = [dict |-> FALSE, value |-> row.entities]]

\* json.loads raises on one of the fetched rows
decode_raises(rows) ==
    \E i \in 1..Len(rows) :
        truthy(rows[i].entities) /\ ~json_loads(rows[i].entities.text).ok

-----------------------------------------------------------------------------
(* DatabaseManager: callers, arguments and results                         *)

MaxCalls == 3       \* store calls made in one run
MaxClock == 1       \* last reading of the clock

\* the threads calling into one DatabaseManager
Procs == {1, 2}

QueryTexts == {"python tutorial", "ai papers"}
AppNames == {"vscode"}
\* arguments of log_command; the entities are {"app_name": "vscode"}, {}
\* and a dict holding a value json cannot encode ({"app_name": {"vscode"}},
\* a set)
LogArgs ==
    {[name |-> "log_command", command_text |-> "open vscode",
      intent |-> "open_app", entities |-> [app_name |-> JStr("vscode")],
      status |-> "success"],
     [name |-> "log_command", command_text |-> "What is the weather?",
      intent |-> "unknown", entities |-> <<>>, status |-> "failure"],
     [name |-> "log_command", command_text |-> "open vscode",
      intent |-> "open_app", entities |-> [app_name |-> Tok("set", "vscode")],
      status |-> "success"]}

\* limit arguments; Omitted stands for a call that passes none
Omitted == [given |-> FALSE, value |-> 0]
LimitArgs == {Omitted} \cup {[given |-> TRUE, value |-> l] : l \in {-1, 0, 1}}

\* def get_most_frequent_queries(self, limit: int = 5), get_most_used_apps
default_limit_ranked == 5
\* def get_recent_commands(self, limit: int = 10)
default_limit_recent == 10

NoOp == [name |-> "none"]
NoWrite == [table |-> "none", rows |-> <<>>]

\* how a call ends: kind is "returned" or "raised"; value is "None" or
\* "list" for a return and the exception type for a raise; rows is the list
\* returned; logged tells whether the except branch ran (logger.error).
\* ret holds this, with the caller and the call, in the state the call ends
\* in, and NoRet in every other state.
NoRet == [kind |-> "none"]
ReturnNone(logged) ==
    [kind |-> "returned", value |-> "None", rows |-> <<>>, logged |-> logged]
ReturnList(rows, logged) ==
    [kind |-> "returned", value |-> "list", rows |-> rows, logged |-> logged]
Raise(exc) == [kind |-> "raised", value |-> exc, rows |-> <<>>, logged |-> FALSE]

WriteOps == {"log_command", "update_frequent_query", "update_app_usage"}
ReadOps == {"get_most_frequent_queries", "get_most_used_apps",
            "get_recent_commands"}

StoreIdle ==
    /\ connections = 0
    /\ lock = 0
    /\ now = 0
    /\ calls = 0
    /\ pc = [p \in Procs |-> "idle"]
    /\ op = [p \in Procs |-> NoOp]
    /\ timestamp = [p \in Procs |-> isoformat(0)]
    /\ pending = [p \in Procs |-> NoWrite]
    /\ ret = NoRet
    /\ completed = [frequent_queries |-> [k \in QueryTexts |-> 0],
                    app_usage |-> [k \in AppNames |-> 0],
                    commands_log |-> <<>>]

\* the three tables as _initialize_db creates them in a new database file
StoreEmpty ==
    /\ commands_log = <<>>
    /\ frequent_queries = <<>>
    /\ app_usage = <<>>
    /\ sqlite_master = create_tables(<<>>).master

-----------------------------------------------------------------------------
(* DatabaseManager: the operations, step by step.  A call is entered, gets *)
(* its connection and reads the clock in its first step; a write then      *)
(* executes its statement inside a transaction (taking SQLite's write      *)
(* lock) and commits in a further step; a read executes its SELECT and     *)
(* returns in one step.                                                    *)

Enter(p) ==
    /\ pc[p] = "idle"
    /\ calls < MaxCalls
    /\ calls' = calls + 1

\* the call o of p ends with r; its locals are gone
Return(p, o, r) ==
    /\ pc' = [pc EXCEPT ![p] = "idle"]
    /\ op' = [op EXCEPT ![p] = NoOp]
    /\ timestamp' = [timestamp EXCEPT ![p] = isoformat(0)]
    /\ ret' = [proc |-> p, op |-> o, kind |-> r.kind, value |-> r.value,
               rows |-> r.rows, logged |-> r.logged]

\* `with self._get_connection() as conn:` is left, n connections being
\* open: Connection.__exit__ commits or rolls back and does not close, and
\* no operation calls conn.close(), so the program leaves all n open.  (An
\* unreferenced connection object is closed when the interpreter finalizes
\* it; whether and when it does is not the program's doing.)
with_exit(n) == n

\* the call o of p ends with r: straight away when sqlite3.connect failed
\* (p has no connection), else through the exit of its with block
Leave(p, o, r) ==
    /\ Return(p, o, r)
    /\ connections' = (IF pc[p] = "idle" THEN connections
                       ELSE with_exit(connections))

\* the call o of p connects and ends with r in one step
LeaveConnected(p, o, r) ==
    /\ Return(p, o, r)
    /\ connections' = with_exit(connections + 1)

\* _get_connection returned a connection to the call o of p, which goes on
Connected(p, o) ==
    /\ pc' = [pc EXCEPT ![p] = "connected"]
    /\ op' = [op EXCEPT ![p] = o]
    /\ ret' = NoRet
    /\ connections' = connections + 1

db == <<commands_log, frequent_queries, app_usage, sqlite_master>>

\* update_frequent_query up to the execute: sqlite3.connect succeeds and
\* timestamp is read, or it raises sqlite3.Error, which _get_connection
\* re-raises and the except clause of the operation logs
update_frequent_query(p) ==
    /\ Enter(p)
    /\ \E q \in QueryTexts :
          LET o == [name |-> "update_frequent_query", query_text |-> q]
          IN  \/ /\ Connected(p, o)
                 /\ timestamp' = [timestamp EXCEPT ![p] = isoformat(now)]
              \/ Leave(p, o, ReturnNone(TRUE))
    /\ UNCHANGED <<parserVars, db, lock, now, pending, completed>>

update_app_usage(p) ==
    /\ Enter(p)
    /\ \E a \in AppNames :
          LET o == [name |-> "update_app_usage", app_name |-> a]
          IN  \/ /\ Connected(p, o)
                 /\ timestamp' = [timestamp EXCEPT ![p] = isoformat(now)]
              \/ Leave(p, o, ReturnNone(TRUE))
    /\ UNCHANGED <<parserVars, db, lock, now, pending, completed>>

\* log_command up to the execute: as above, then json.dumps(entities),
\* whose TypeError no except clause of log_command catches
log_command(p) ==
    /\ Enter(p)
    /\ \E o \in LogArgs :
          \/ /\ serializable(o.entities)
             /\ Connected(p, o)
             /\ timestamp' = [timestamp EXCEPT ![p] = isoformat(now)]
          \/ /\ ~serializable(o.entities)
             /\ LeaveConnected(p, o, Raise("TypeError"))
          \/ Leave(p, o, ReturnNone(TRUE))
    /\ UNCHANGED <<parserVars, db, lock, now, pending, completed>>

\* the rows a write statement of p leaves in its table
statement(p) ==
    CASE op[p].name = "update_frequent_query" ->
            [table |-> "frequent_queries",
             rows  |-> upsert_frequent_query(frequent_queries,
                                             op[p].query_text, timestamp[p])]
      [] op[p].name = "update_app_usage" ->
            [table |-> "app_usage",
             rows  |-> upsert_app_usage(app_usage, op[p].app_name, timestamp[p])]
      [] op[p].name = "log_command" ->
            [table |-> "commands_log",
             rows  |-> insert_command(commands_log, op[p].command_text,
                                      op[p].intent, json_dumps(op[p].entities),
                                      timestamp[p], op[p].status)]

\* SQLite lets one connection at a time write
may_write(p) == lock = 0

\* cursor.execute of a write: the statement runs in the transaction of p,
\* which takes the write lock
execute(p) ==
    /\ pc[p] = "connected"
    /\ op[p].name \in WriteOps
    /\ may_write(p)
    /\ lock' = p
    /\ pending' = [pending EXCEPT ![p] = statement(p)]
    /\ pc' = [pc EXCEPT ![p] = "executed"]
    /\ ret' = NoRet
    /\ UNCHANGED <<parserVars, db, connections, now, calls, op, timestamp,
                   completed>>

\* cursor.execute of a write raises sqlite3.Error (database is locked, disk
\* I/O error, ...): the with block rolls back and the except clause logs
execute_error(p) ==
    /\ pc[p] = "connected"
    /\ op[p].name \in WriteOps
    /\ Leave(p, op[p], ReturnNone(TRUE))
    /\ UNCHANGED <<parserVars, db, lock, now, calls, pending, completed>>

\* the table a committed write changes
committed(p, table, rows) ==
    IF pending[p].table = table THEN pending[p].rows ELSE rows

\* conn.commit(): the transaction's write becomes the stored table
commit(p) ==
    /\ pc[p] = "executed"
    /\ commands_log' = committed(p, "commands_log", commands_log)
    /\ frequent_queries' = committed(p, "frequent_queries", frequent_queries)
    /\ app_usage' = committed(p, "app_usage", app_usage)
    /\ lock' = IF lock = p THEN 0 ELSE lock
    /\ pending' = [pending EXCEPT ![p] = NoWrite]
    /\ completed' =
          CASE op[p].name = "update_frequent_query" ->
                  [completed EXCEPT !.frequent_queries[op[p].query_text] = @ + 1]
            [] op[p].name = "update_app_usage" ->
                  [completed EXCEPT !.app_usage[op[p].app_name] = @ + 1]
            [] op[p].name = "log_command" ->
                  [completed EXCEPT !.commands_log = Append(@, op[p])]
    /\ Leave(p, op[p], ReturnNone(FALSE))
    /\ UNCHANGED <<parserVars, sqlite_master, now, calls>>

\* conn.commit() raises sqlite3.Error: the with block rolls back
commit_error(p) ==
    /\ pc[p] = "executed"
    /\ lock' = IF lock = p THEN 0 ELSE lock
    /\ pending' = [pending EXCEPT ![p] = NoWrite]
    /\ Leave(p, op[p], ReturnNone(TRUE))
    /\ UNCHANGED <<parserVars, db, now, calls, completed>>

\* the limit a read passes to LIMIT ?
limit_of(arg, default) == IF arg.given THEN arg.value ELSE default

\* a read up to its execute
get_most_frequent_queries(p) ==
    /\ Enter(p)
    /\ \E l \in LimitArgs :
          LET o == [name |-> "get_most_frequent_queries",
                    limit |-> limit_of(l, default_limit_ranked), arg |-> l]
          IN  \/ Connected(p, o) /\ UNCHANGED timestamp
              \/ Leave(p, o, ReturnList(<<>>, TRUE))
    /\ UNCHANGED <<parserVars, db, lock, now, pending, completed>>

get_most_used_apps(p) ==
    /\ Enter(p)
    /\ \E l \in LimitArgs :
          LET o == [name |-> "get_most_used_apps",
                    limit |-> limit_of(l, default_limit_ranked), arg |-> l]
          IN  \/ Connected(p, o) /\ UNCHANGED timestamp
              \/ Leave(p, o, ReturnList(<<>>, TRUE))
    /\ UNCHANGED <<parserVars, db, lock, now, pending, completed>>

get_recent_commands(p) ==
    /\ Enter(p)
    /\ \E l \in LimitArgs :
          LET o == [name |-> "get_recent_commands",
                    limit |-> limit_of(l, default_limit_recent), arg |-> l]
          IN  \/ Connected(p, o) /\ UNCHANGED timestamp
              \/ Leave(p, o, ReturnList(<<>>, TRUE))
    /\ UNCHANGED <<parserVars, db, lock, now, pending, completed>>

\* cursor.execute and fetchall of a ranked read, and its return
fetch_ranked(p) ==
    /\ pc[p] = "connected"
    /\ \/ /\ op[p].name = "get_most_frequent_queries"
          /\ \E rows \in select_rows("frequent_queries", frequent_queries, op[p].limit) :
                Leave(p, op[p], ReturnList(rows, FALSE))
       \/ /\ op[p].name = "get_most_used_apps"
          /\ \E rows \in select_rows("app_usage", app_usage, op[p].limit) :
                Leave(p, op[p], ReturnList(rows, FALSE))
    /\ UNCHANGED <<parserVars, db, lock, now, calls, pending, completed>>

\* cursor.execute and fetchall of get_recent_commands, the decoding loop,
\* and the return; a JSONDecodeError of json.loads is no sqlite3.Error
fetch_recent(p) ==
    /\ pc[p] = "connected"
    /\ op[p].name = "get_recent_commands"
    /\ \E rows \in select_rows("commands_log", commands_log, op[p].limit) :
          \/ /\ ~decode_raises(rows)
             /\ Leave(p, op[p],
                      ReturnList([i \in 1..Len(rows) |-> decode_row(rows[i])], FALSE))
          \/ /\ decode_raises(rows)
             /\ Leave(p, op[p], Raise("JSONDecodeError"))
    /\ UNCHANGED <<parserVars, db, lock, now, calls, pending, completed>>

\* cursor.execute of a read raises sqlite3.Error
fetch_error(p) ==
    /\ pc[p] = "connected"
    /\ op[p].name \in ReadOps
    /\ Leave(p, op[p], ReturnList(<<>>, TRUE))
    /\ UNCHANGED <<parserVars, db, lock, now, calls, pending, completed>>

\* DatabaseManager(...) is constructed on the database file by caller p:
\* __init__ runs _initialize_db, which has no except clause, so a failed
\* statement raises out of the constructor.  The statements create tables
\* and touch no row.
initialize_db(p) ==
    /\ Enter(p)
    /\ LET m == create_tables(sqlite_master)
           o == [name |-> "_initialize_db"]
       IN  /\ sqlite_master' = m.master
           /\ IF m.ok THEN LeaveConnected(p, o, ReturnNone(FALSE))
                      ELSE LeaveConnected(p, o, Raise("OperationalError"))
    /\ UNCHANGED <<parserVars, commands_log, frequent_queries, app_usage,
                   lock, now, pending, completed>>

\* time passes
tick ==
    /\ now < MaxClock
    /\ now' = now + 1
    /\ ret' = NoRet
    /\ UNCHANGED <<parserVars, db, connections, lock, calls, pc, op, timestamp,
                   pending, completed>>

Init ==
    /\ command_text = <<>>
    /\ parsed = NoResult
    /\ StoreEmpty
    /\ StoreIdle

Next ==
    \/ tick
    \/ \E p \in Procs :
          \/ log_command(p)
          \/ update_frequent_query(p)
          \/ update_app_usage(p)
          \/ get_most_frequent_queries(p)
          \/ get_most_used_apps(p)
          \/ get_recent_commands(p)
          \/ execute(p)
          \/ execute_error(p)
          \/ commit(p)
          \/ commit_error(p)
          \/ fetch_ranked(p)
          \/ fetch_recent(p)
          \/ fetch_error(p)
          \/ initialize_db(p)

Spec == Init /\ [][Next]_vars

-----------------------------------------------------------------------------
(* A DatabaseManager constructed on a database file that exists already:   *)
(* CREATE TABLE IF NOT EXISTS keeps the rows found there.  The column      *)
(* commands_log.entities is declared TEXT with no constraint, so a row     *)
(* written by an earlier version or by another program may hold NULL, ''   *)
(* or text that is no JSON document.                                       *)

MaxExisting == 2    \* rows found in commands_log

ExistingEntities ==
    {Text(json_dumps([app_name |-> JStr("vscode")])),
     Text(<<Tok("{", ""), JStr("app_name")>>),
     Text(<<>>),
     Null}

ExistingRows ==
    {[command_text |-> "open vscode", intent |-> "open_app", entities |-> e,
      timestamp |-> isoformat(0), status |-> "success"] : e \in ExistingEntities}

InitExisting ==
    /\ command_text = <<>>
    /\ parsed = NoResult
    /\ commands_log \in SeqsUpTo(ExistingRows, MaxExisting)
    /\ frequent_queries = <<>>
    /\ app_usage = <<>>
    /\ sqlite_master = create_tables(<<>>).master
    /\ StoreIdle

\* the log is read
NextExisting ==
    \E p \in Procs :
        \/ get_recent_commands(p)
        \/ fetch_recent(p)
        \/ fetch_error(p)

SpecExisting == InitExisting /\ [][NextExisting]_vars

-----------------------------------------------------------------------------
(* The parser as a state machine: a command string arrives, parse_command  *)
(* is applied to it                                                        *)

InitParser ==
    /\ command_text \in Inputs
    /\ parsed = NoResult
    /\ StoreEmpty
    /\ StoreIdle

ParseCommand ==
    /\ parsed = NoResult
    /\ parsed' = parse_command(command_text)
    /\ UNCHANGED <<command_text, storeVars>>

NextParser == ParseCommand

SpecParser == InitParser /\ [][NextParser]_vars

-----------------------------------------------------------------------------
(* Properties of the parser                                                *)

\* the normalized input: command_text.lower().strip()
Normalized == strip(lower(command_text))

\* the order in which the specification declares the six patterns
DeclaredOrder == <<"open_app", "search_web", "search_default", "go_to_url",
                   "close_app", "bring_to_front">>

FallbackIntents == {"help", "exit", "unknown"}

Matching ==
    UNION {{i \in 1..Len(DeclaredOrder) : re_match(DeclaredOrder[i], s).ok} :
              s \in {Normalized}}

\* C1: parse_command returns the intent of the first pattern, in the order
\* open_app, search_web, search_default, go_to_url, close_app,
\* bring_to_front, whose regex matches the normalized input; a later
\* pattern is never chosen when an earlier one matches, and help, exit and
\* unknown are returned only when none of the six matches.
C1_FirstPatternWins ==
    parsed # NoResult =>
        \A M \in {Matching} :
            /\ \A i \in M :
                  (\A j \in M : i <= j) => parsed.intent = DeclaredOrder[i]
            /\ \A i \in 1..Len(DeclaredOrder) :
                  parsed.intent = DeclaredOrder[i] =>
                      i \in M /\ \A j \in 1..(i - 1) : j \notin M
            /\ parsed.intent \in FallbackIntents <=> M = {}

\* an input that two patterns match has been parsed and the earlier won
C1_Witness ==
    /\ parsed # NoResult
    /\ parsed.intent = "search_web"
    /\ re_search_default(Normalized).ok

Intents == {"open_app", "search_web", "search_default", "go_to_url",
            "close_app", "bring_to_front", "help", "exit", "unknown"}

BringForm(s, verb, rest) ==
    /\ rest # <<>>
    /\ strip(rest) = rest
    /\ \A i \in 1..Len(rest) : rest[i] # "\n"
    /\ LitAt(s, 1, verb)
    /\ \E a \in 1..WsRun(s, Len(verb) + 1) :
          LET r == Len(verb) + a + 1
              e == r + Len(rest)
          IN  /\ LitAt(s, r, rest)
              /\ \E b \in 1..WsRun(s, e) :
                    /\ LitAt(s, e + b, c_to)
                    /\ \E c \in 1..WsRun(s, e + b + 2) :
                          /\ LitAt(s, e + b + 2 + c, c_front)
                          /\ e + b + 2 + c + Len(c_front) - 1 = Len(s)

\* the texts that can stand between the verb and `to front` in s
Rests(s) == {SubSeq(s, i, j) : i \in 1..Len(s), j \in 1..Len(s)}

\* C6: for an input whose normalized form is `bring <rest> to front` or
\* `focus <rest> to front`, parse_command returns bring_to_front with
\* app_name = <rest>, replaced by its canonical name when <rest> is a key
\* of the alias table; app_name is never the verb.
C6_BringToFrontName ==
    parsed # NoResult =>
        \A verb \in {c_bring, c_focus} :
            \A rest \in Rests(Normalized) :
                BringForm(Normalized, verb, rest) =>
                    /\ parsed.intent = "bring_to_front"
                    /\ parsed.entities = [app_name |-> app_aliases_get(rest)]
                    /\ parsed.entities.app_name # verb

\* C7: for an input whose normalized form is `go to`, `visit` or `open url`
\* followed by whitespace and a non-empty url, parse_command returns
\* go_to_url with the single entity url, made from the text after the verb.
C7_GoToUrlVerbs ==
    parsed # NoResult =>
        \A verb \in {c_go_to, c_visit, c_open_url} :
            VerbRest(Normalized, verb).ok =>
                /\ parsed.intent = "go_to_url"
                /\ DOMAIN parsed.entities = {"url"}
                /\ LET url == strip(VerbRest(Normalized, verb).rest)
                   IN  parsed.entities.url \in {url, c_https \o url}

\* the part of C7 the code keeps: the verbs `go to` and `visit`
C7_GoToAndVisit ==
    parsed # NoResult =>
        \A verb \in {c_go_to, c_visit} :
            VerbRest(Normalized, verb).ok =>
                /\ parsed.intent = "go_to_url"
                /\ DOMAIN parsed.entities = {"url"}

Min2(a, b) == IF a <= b THEN a ELSE b

\* s has no line break
OneLine(s) == \A i \in 1..Len(s) : s[i] # "\n"

\* the text of s from position i on, trimmed
RestFrom(s, i) == strip(SubSeq(s, i, Len(s)))

\* the positions of s where the word `on` stands between whitespace
OnSeps(s) ==
    {i \in 2..(Len(s) - 2) :
        LitAt(s, i, c_on) /\ s[i - 1] \in Whitespace /\ s[i + 2] \in Whitespace}

SchemePrefix(u) ==
    \E n \in 1..Len(u) :
        /\ \A j \in 1..n : u[j] \in Letter
        /\ LitAt(u, n + 1, c_scheme_sep)

\* the url the go_to_url pattern captured in the normalized input, trimmed
CapturedUrl == strip(re_go_to_url(Normalized).g2)

Canonical(name) ==
    LET hits == {a \in app_aliases : a[1] = name}
    IN  IF hits = {} THEN name ELSE (CHOOSE a \in hits : TRUE)[2]

C15_HelpExitFallback ==
    parsed # NoResult =>
      \A s \in {Normalized} :
        LET help == \E i \in 1..Len(s) : SubSeq(s, i, Min2(i + 3, Len(s))) = c_help
            exit == \E i \in 1..Len(s) :
                      SubSeq(s, i, Min2(i + 3, Len(s))) \in {c_exit, c_quit}
        IN  IF Matching = {}
            THEN parsed.intent = (IF help THEN "help"
                                  ELSE IF exit THEN "exit" ELSE "unknown")
            ELSE parsed.intent \notin {"help", "exit"}

\* an input holding both exit and help has been classified help, and it
\* matches no pattern
C15_Witness ==
    /\ parsed # NoResult
    /\ Matching = {}
    /\ Contains(Normalized, c_exit)
    /\ Contains(Normalized, c_help)
    /\ parsed = [intent |-> "help", entities |-> NoEntities]

\* the entity names the specification gives each intent
EntityKeys(intent) ==
    CASE intent \in {"open_app", "close_app", "bring_to_front"} -> {"app_name"}
      [] intent \in {"search_web", "search_default"} -> {"query", "site"}
      [] intent = "go_to_url" -> {"url"}
      [] intent \in {"help", "exit", "unknown"} -> {}

-----------------------------------------------------------------------------
(* Properties of the store                                                 *)

\* the instant an isoformat text denotes, in half seconds
instant(ts) == 2 * ts.sec + (IF ts.frac = "." THEN 1 ELSE 0)

Min(a, b) == IF a <= b THEN a ELSE b

Range(s) == {s[i] : i \in 1..Len(s)}

QueryRows(q) == {i \in 1..Len(frequent_queries) : frequent_queries[i].query_text = q}
AppRows(a) == {i \in 1..Len(app_usage) : app_usage[i].app_name = a}

\* C3: after any interleaving of update_frequent_query / update_app_usage
\* calls of concurrent callers on relations that were empty, each relation
\* holds exactly one row per key ever updated, whose count is the number of
\* update calls for the key that completed without a storage error: no
\* update is lost, no key is inserted twice, and count >= 1.
C3_OneRowPerKeyCountsUpdates ==
    /\ \A q \in QueryTexts :
          /\ Cardinality(QueryRows(q)) =
                (IF completed.frequent_queries[q] > 0 THEN 1 ELSE 0)
          /\ \A i \in QueryRows(q) :
                /\ frequent_queries[i].count = completed.frequent_queries[q]
                /\ frequent_queries[i].count >= 1
    /\ \A a \in AppNames :
          /\ Cardinality(AppRows(a)) =
                (IF completed.app_usage[a] > 0 THEN 1 ELSE 0)
          /\ \A i \in AppRows(a) :
                /\ app_usage[i].open_count = completed.app_usage[a]
                /\ app_usage[i].open_count >= 1
    /\ \A i \in 1..Len(frequent_queries) :
          frequent_queries[i].query_text \in QueryTexts
    /\ \A i \in 1..Len(app_usage) : app_usage[i].app_name \in AppNames

\* two updates of one key have completed, the second by a caller that was
\* in its call while the other committed, and the row counts 2
C3_Witness ==
    \E q \in QueryTexts :
        /\ completed.frequent_queries[q] = 2
        /\ \E i \in QueryRows(q) : frequent_queries[i].count = 2
        /\ ret.kind = "returned" /\ ~ret.logged
        /\ ret.op.name = "update_frequent_query" /\ ret.op.query_text = q
        /\ calls = 2
        /\ \A p \in Procs : pc[p] = "idle"

\* C4: with a clock that never goes backwards, the stored last_used
\* (last_opened) of a key never decreases: no update replaces a stored
\* timestamp by an earlier one, whatever the interleaving.
C4_LastUsedNeverDecreases ==
    [][/\ \A i \in 1..Len(frequent_queries) :
             \A j \in 1..Len(frequent_queries') :
                frequent_queries[i].query_text = frequent_queries'[j].query_text
                => instant(frequent_queries[i].last_used)
                      <= instant(frequent_queries'[j].last_used)
       /\ \A i \in 1..Len(app_usage) :
             \A j \in 1..Len(app_usage') :
                app_usage[i].app_name = app_usage'[j].app_name
                => instant(app_usage[i].last_opened)
                      <= instant(app_usage'[j].last_opened)]_vars

\* the clock of the model never goes backwards
ClockMonotone == [][now <= now']_vars

\* a ranked read has just returned its rows, with no storage error
RankedReturned(name) ==
    /\ ret.kind = "returned"
    /\ ~ret.logged
    /\ ret.op.name = name

\* the count and the instant of last use of a row of a counter table
CountOf(table, r) == IF table = "frequent_queries" THEN r.count ELSE r.open_count
UsedAt(table, r) ==
    instant(IF table = "frequent_queries" THEN r.last_used ELSE r.last_opened)

\* r ranks at least as high as s
RanksAsHigh(table, r, s) ==
    \/ CountOf(table, r) > CountOf(table, s)
    \/ /\ CountOf(table, r) = CountOf(table, s)
       /\ UsedAt(table, r) >= UsedAt(table, s)

\* rows are the top n rows of the set R of rows of the table: n distinct
\* rows of R, count descending, equal counts by last use descending, and
\* every row returned ranks at least as high as every row left out
IsTop(table, rows, R, n) ==
    /\ Len(rows) = n
    /\ \A i \in 1..Len(rows) : rows[i] \in R
    /\ \A i, j \in 1..Len(rows) : i # j => rows[i] # rows[j]
    /\ \A i, j \in 1..Len(rows) : i < j => RanksAsHigh(table, rows[i], rows[j])
    /\ \A r \in R \ Range(rows) :
          \A i \in 1..Len(rows) : RanksAsHigh(table, rows[i], r)

C8_NoFailurePropagates ==
    [][ret'.kind # "none" =>
          /\ ret'.kind = "returned"
          /\ (ret'.logged /\ ret'.op.name \in WriteOps) => db' = db
          /\ (ret'.logged /\ ret'.op.name \in ReadOps) =>
                ret'.value = "list" /\ ret'.rows = <<>>]_vars

\* C10: get_most_frequent_queries / get_most_used_apps called with
\* limit <= 0, or with no limit, return what a call with limit = 5 returns:
\* at most 5 rows, the top-ranked ones.
C10_NonPositiveLimitIsFive ==
    /\ (/\ RankedReturned("get_most_frequent_queries")
        /\ (~ret.op.arg.given \/ ret.op.arg.value <= 0)) =>
          ret.rows \in select_rows("frequent_queries", frequent_queries, 5)
    /\ (/\ RankedReturned("get_most_used_apps")
        /\ (~ret.op.arg.given \/ ret.op.arg.value <= 0)) =>
          ret.rows \in select_rows("app_usage", app_usage, 5)

\* the part of C10 the code keeps: a call with no limit
C10_OmittedLimitIsFive ==
    /\ (RankedReturned("get_most_frequent_queries") /\ ~ret.op.arg.given) =>
          ret.rows \in select_rows("frequent_queries", frequent_queries, 5)
    /\ (RankedReturned("get_most_used_apps") /\ ~ret.op.arg.given) =>
          ret.rows \in select_rows("app_usage", app_usage, 5)

\* a get_recent_commands has just returned its rows, with no storage error
RecentReturned ==
    /\ ret.kind = "returned"
    /\ ~ret.logged
    /\ ret.op.name = "get_recent_commands"

\* entry is the entry the specification has get_recent_commands return for
\* the log_command call o
EntryFor(entry, o) ==
    /\ entry.command_text = o.command_text
    /\ entry.intent = o.intent
    /\ entry.status = o.status
    /\ entry.entities.dict
    /\ DOMAIN entry.entities.value = DOMAIN o.entities
    /\ \A k \in DOMAIN o.entities : entry.entities.value[k] = o.entities[k]

\* C11: for every entities mapping from string names to string values,
\* the empty mapping included, a successful log_command(text, intent,
\* entities, status) followed by get_recent_commands (with a limit that
\* does not cut the entry off) returns an entry for that call whose
\* entities is a mapping equal to the one passed, and whose command_text,
\* intent and status are the arguments.
C11_EntitiesRoundTrip ==
    (RecentReturned /\ ret.op.limit >= Len(commands_log)) =>
        /\ Len(ret.rows) = Len(completed.commands_log)
        /\ \A o \in Range(completed.commands_log) :
              /\ Cardinality({i \in 1..Len(ret.rows) : EntryFor(ret.rows[i], o)})
                    = Cardinality({i \in 1..Len(completed.commands_log) :
                                      completed.commands_log[i] = o})

\* a call with the empty mapping and a call with {app_name: vscode} have
\* been logged and read back
C11_Witness ==
    /\ RecentReturned
    /\ Len(ret.rows) = 2
    /\ \E i, j \in 1..2 :
          /\ ret.rows[i].entities = [dict |-> TRUE, value |-> <<>>]
          /\ ret.rows[j].entities =
                [dict |-> TRUE, value |-> [app_name |-> JStr("vscode")]]

\* the log entries were written at strictly increasing clock values
LoggedAtIncreasingTimes ==
    \A i \in 1..(Len(commands_log) - 1) :
        instant(commands_log[i].timestamp) < instant(commands_log[i + 1].timestamp)

\* C17: after any sequence of successful log_command calls made at
\* strictly increasing clock values, get_recent_commands(limit) with
\* limit > 0 returns min(limit, number of logged entries) entries, the most
\* recently logged ones in reverse order of logging (timestamp descending).
C17_RecentCommandsNewestFirst ==
    (RecentReturned /\ ret.op.limit > 0 /\ LoggedAtIncreasingTimes) =>
        LET n == Len(commands_log)
        IN  /\ Len(completed.commands_log) = n
            /\ Len(ret.rows) = Min(ret.op.limit, n)
            /\ \A k \in 1..Len(ret.rows) :
                  /\ EntryFor(ret.rows[k], completed.commands_log[n - k + 1])
                  /\ ret.rows[k].timestamp = commands_log[n - k + 1].timestamp
            /\ \A k \in 1..(Len(ret.rows) - 1) :
                  instant(ret.rows[k].timestamp) > instant(ret.rows[k + 1].timestamp)

\* two entries logged one after the other, read with limit 1: the later one
\* is returned
C17_Witness ==
    /\ RecentReturned
    /\ ret.op.limit = 1
    /\ Len(commands_log) = 2
    /\ LoggedAtIncreasingTimes
    /\ Len(ret.rows) = 1
    /\ ret.rows[1].timestamp = commands_log[2].timestamp
    /\ ret.rows[1].command_text # commands_log[1].command_text

\* C18: _initialize_db is idempotent and data-preserving: run on a store
\* where the three relations exist it raises no error, creates no duplicate
\* relation and leaves every commands_log, frequent_queries and app_usage
\* row unchanged, so constructing a DatabaseManager on an existing database
\* at any point of a run loses nothing.
C18_SchemaCreationIdempotent ==
    [][(ret'.kind # "none" /\ ret'.op.name = "_initialize_db") =>
          /\ ret'.kind = "returned"
          /\ commands_log' = commands_log
          /\ frequent_queries' = frequent_queries
          /\ app_usage' = app_usage
          /\ sqlite_master' = sqlite_master
          /\ \A name \in {"commands_log", "frequent_queries", "app_usage"} :
                Cardinality({i \in 1..Len(sqlite_master') :
                                sqlite_master'[i] = name}) = 1]_vars

\* a DatabaseManager has been constructed on a database that holds a log
\* entry and a counter row, which are still there
C18_Witness ==
    /\ ret.kind = "returned"
    /\ ret.op.name = "_initialize_db"
    /\ Len(commands_log) >= 1
    /\ Len(frequent_queries) >= 1
    /\ Len(sqlite_master) = 3

\* rel2 holds every row of rel whose key (field f) is not k, unchanged and
\* at its place, and no further row with another key
OtherKeysKept(rel, rel2, f, k) ==
    /\ Len(rel2) >= Len(rel)
    /\ \A i \in 1..Len(rel) :
          IF rel[i][f] = k THEN rel2[i][f] = k ELSE rel2[i] = rel[i]
    /\ \A i \in (Len(rel) + 1)..Len(rel2) : rel2[i][f] = k
    /\ Cardinality({i \in 1..Len(rel2) : rel2[i][f] = k}) = 1

\* a step in which a call ended with no failure
Succeeded(name) ==
    /\ ret'.kind = "returned"
    /\ ~ret'.logged
    /\ ret'.op.name = name

\* C19: every store operation changes only what it is about: log_command
\* appends exactly one entry to commands_log and leaves both counter
\* relations and every earlier entry unchanged; update_frequent_query /
\* update_app_usage changes only the row of its own key in its own relation
\* and leaves the log, the other relation and every other key's row
\* unchanged; the three reads change nothing; no step deletes or alters a
\* log entry or deletes a counter row.
C19_FrameConditions ==
    [][/\ Succeeded("log_command") =>
             /\ Len(commands_log') = Len(commands_log) + 1
             /\ SubSeq(commands_log', 1, Len(commands_log)) = commands_log
             /\ commands_log'[Len(commands_log')].command_text
                   = ret'.op.command_text
             /\ frequent_queries' = frequent_queries
             /\ app_usage' = app_usage
       /\ Succeeded("update_frequent_query") =>
             /\ OtherKeysKept(frequent_queries, frequent_queries',
                              "query_text", ret'.op.query_text)
             /\ commands_log' = commands_log
             /\ app_usage' = app_usage
       /\ Succeeded("update_app_usage") =>
             /\ OtherKeysKept(app_usage, app_usage', "app_name", ret'.op.app_name)
             /\ commands_log' = commands_log
             /\ frequent_queries' = frequent_queries
       /\ (ret'.kind # "none" /\ ret'.op.name \in ReadOps) => db' = db
       /\ Len(commands_log') >= Len(commands_log)
       /\ SubSeq(commands_log', 1, Len(commands_log)) = commands_log
       /\ \A i \in 1..Len(frequent_queries) :
             /\ i <= Len(frequent_queries')
             /\ frequent_queries'[i].query_text = frequent_queries[i].query_text
       /\ \A i \in 1..Len(app_usage) :
             /\ i <= Len(app_usage')
             /\ app_usage'[i].app_name = app_usage[i].app_name]_vars

\* a query has been counted a second time while the other query has its
\* row, which is as it was
C19_Witness ==
    /\ ret.kind = "returned" /\ ~ret.logged
    /\ ret.op.name = "update_frequent_query"
    /\ Len(frequent_queries) = 2
    /\ \E i, j \in 1..2 :
          /\ frequent_queries[i].query_text = ret.op.query_text
          /\ frequent_queries[i].count = 2
          /\ frequent_queries[j].query_text # ret.op.query_text
          /\ frequent_queries[j].count = 1

\* no operation is in progress
BetweenOperations == \A p \in Procs : pc[p] = "idle"

\* C20: each store operation opens its own connection, commits, and closes
\* that connection before it returns, on the success path and on the error
\* path alike: between two operations the store holds no open connection
\* and no open transaction, so the number of open connections does not grow
\* with the number of operations performed.
C20_ConnectionsReleased ==
    BetweenOperations =>
        /\ connections = 0
        /\ lock = 0
        /\ \A p \in Procs : pending[p] = NoWrite

\* the part of C20 the code keeps: every operation has its own connection,
\* and between two operations no transaction is open
C20_NoOpenTransaction ==
    /\ connections >= Cardinality({p \in Procs : pc[p] # "idle"})
    /\ connections <= calls
    /\ BetweenOperations => (lock = 0 /\ \A p \in Procs : pending[p] = NoWrite)

\* entry is what the claim lets get_recent_commands return for the stored
\* row: the row, its entities decoded, or left as the raw text or empty
\* when the text cannot be decoded
EntryOf(entry, row) ==
    /\ entry.command_text = row.command_text
    /\ entry.intent = row.intent
    /\ entry.timestamp = row.timestamp
    /\ entry.status = row.status
    /\ IF truthy(row.entities) /\ json_loads(row.entities.text).ok
       THEN entry.entities = [dict |-> TRUE,
                              value |-> json_loads(row.entities.text).value]
       ELSE \/ entry.entities = [dict |-> FALSE, value |-> row.entities]
            \/ entry.entities = [dict |-> TRUE, value |-> <<>>]

\* C9: if a commands_log row holds entities text that cannot be
\* deserialized, get_recent_commands still returns that row (entities left
\* as the raw text or empty) together with all other rows it would return;
\* a malformed row never makes the read raise or lose rows.
C9_MalformedRowStillReturned ==
    (/\ ret.kind # "none"
     /\ ret.op.name = "get_recent_commands"
     /\ ~(ret.kind = "returned" /\ ret.logged)) =>
        /\ ret.kind = "returned"
        /\ \E rows \in select_rows("commands_log", commands_log, ret.op.limit) :
              /\ Len(ret.rows) = Len(rows)
              /\ \A i \in 1..Len(rows) : EntryOf(ret.rows[i], rows[i])

\* what the code does keep: a read of rows whose entities all decode (or
\* are NULL or '') returns every row the SELECT delivers
C9_WellFormedRowsReturned ==
    (/\ ret.kind # "none"
     /\ ret.op.name = "get_recent_commands"
     /\ ~(ret.kind = "returned" /\ ret.logged)
     /\ ~decode_raises(commands_log)) =>
        /\ ret.kind = "returned"
        /\ \E rows \in select_rows("commands_log", commands_log, ret.op.limit) :
              /\ Len(ret.rows) = Len(rows)
              /\ \A i \in 1..Len(rows) : EntryOf(ret.rows[i], rows[i])

=============================================================================
